---- MODULE Spec2Model ----
(***************************************************************************)
(* Progressive income-tax calculation engine of tax-g-backend.             *)
(*                                                                         *)
(* Two implementations are modelled side by side:                          *)
(*   - TaxCalculator (lib/tax.ts): withholding-aware, CTC phase-out, EITC  *)
(*   - taxCalculationService (calculateTaxes): credit-only                 *)
(*                                                                         *)
(* decimal.js values are exact decimals.  A value is a record              *)
(*   [k, w, u]   k = "fin": w dollars + u millionths of a dollar,          *)
(*                          0 <= u < Micro (w may be negative)             *)
(*               k = "max": Number.MAX_SAFE_INTEGER + (w, u)               *)
(*               k = "inf": Infinity                                       *)
(* so that every product amount * rate of the code (amounts in cents,      *)
(* rates with at most four decimals) is represented exactly.               *)
(***************************************************************************)
EXTENDS Integers, Sequences, FiniteSets, TLC

\* ------------------------------------------------------------------------
\* decimal.js arithmetic
\* ------------------------------------------------------------------------
\* rates have at most four decimals; amounts have two
RateScale == 100 * 100
Micro == 100 * RateScale

Dec(w, u) == [k |-> "fin", w |-> w, u |-> u]
Dollars(n) == Dec(n, 0)
Cents(d, c) == Dec(d, c * (Micro \div 100))
Zero == Dollars(0)
Infinity == [k |-> "inf", w |-> 0, u |-> 0]
MAX_SAFE_INTEGER == [k |-> "max", w |-> 0, u |-> 0]

Norm(k, w, u) == [k |-> k, w |-> w + (u \div Micro), u |-> u % Micro]

KindRank(a) == CASE a.k = "fin" -> 0 [] a.k = "max" -> 1 [] a.k = "inf" -> 2

\* a.plus(b); b is always finite in the code modelled
Plus(a, b) == IF a.k = "inf" THEN Infinity ELSE Norm(a.k, a.w + b.w, a.u + b.u)

\* a.minus(b); b is always finite in the code modelled
Minus(a, b) == IF a.k = "inf" THEN Infinity ELSE Norm(a.k, a.w - b.w, a.u - b.u)

\* a.lt(b)
Lt(a, b) ==
    IF KindRank(a) # KindRank(b) THEN KindRank(a) < KindRank(b)
    ELSE IF a.k = "inf" THEN FALSE
    ELSE a.w < b.w \/ (a.w = b.w /\ a.u < b.u)

Lte(a, b) == ~Lt(b, a)
Gt(a, b) == Lt(b, a)

\* Decimal.max / Decimal.min
DecMax(a, b) == IF Lt(a, b) THEN b ELSE a
DecMin(a, b) == IF Lt(b, a) THEN b ELSE a

Neg(a) == Norm("fin", 0 - a.w, 0 - a.u)

\* a.times(rate) for a >= 0, rate = r / RateScale.  The dollars are split
\* in ten-thousands so that no partial product leaves the integer range.
TimesNonNeg(a, r) ==
    LET q  == a.w \div RateScale
        m  == a.w % RateScale
        mr == m * r
        c  == a.u \div RateScale
        f  == a.u % RateScale
    IN  Norm("fin", q * r + (mr \div RateScale),
             (mr % RateScale) * (Micro \div RateScale) + c * r + ((f * r) \div RateScale))

Times(a, r) == IF Lt(a, Zero) THEN Neg(TimesNonNeg(Neg(a), r)) ELSE TimesNonNeg(a, r)

\* a.times(n) for an integer n >= 0 and a whole number of dollars a
TimesInt(a, n) == Dollars(a.w * n)

\* a.div(1000).floor()
DivFloor(a, n) == a.w \div n

IsZero(a) == a.k = "fin" /\ a.w = 0 /\ a.u = 0

\* Variant that starts the sum from the first entry instead of from zero and
\* then adds every entry: the first amount is counted twice.
RECURSIVE SumAmounts_FirstTwice(_)
SumAmounts_FirstTwice(entries) ==
    IF entries = <<>> THEN Zero
    ELSE IF Len(entries) = 1 THEN Plus(entries[1].amount, entries[1].amount)
    ELSE Plus(SumAmounts_FirstTwice(SubSeq(entries, 1, Len(entries) - 1)),
              entries[Len(entries)].amount)

\* reduce((sum, entry) => sum.plus(entry.amount), new Decimal(0))
RECURSIVE SumAmounts(_)
SumAmounts(entries) ==
    IF entries = <<>> THEN Zero
    ELSE Plus(SumAmounts(SubSeq(entries, 1, Len(entries) - 1)),
              entries[Len(entries)].amount)

\* ------------------------------------------------------------------------
\* Enumerations
\* ------------------------------------------------------------------------
FilingStatus ==
    {"SINGLE", "MARRIED_FILING_JOINTLY", "MARRIED_FILING_SEPARATELY",
     "HEAD_OF_HOUSEHOLD", "QUALIFYING_SURVIVING_SPOUSE"}

IncomeType ==
    {"W2_WAGES", "INTEREST", "DIVIDENDS", "BUSINESS_INCOME", "CAPITAL_GAINS",
     "OTHER_INCOME", "UNEMPLOYMENT", "RETIREMENT_DISTRIBUTIONS", "SOCIAL_SECURITY"}

DeductionType ==
    {"MORTGAGE_INTEREST", "STATE_LOCAL_TAXES", "CHARITABLE_CONTRIBUTIONS",
     "MEDICAL_EXPENSES", "BUSINESS_EXPENSES", "STUDENT_LOAN_INTEREST",
     "IRA_CONTRIBUTIONS", "OTHER_DEDUCTIONS"}

\* { min, max, rate }: min and max in dollars, rate in 1/RateScale
\* (rate: 0.10 is 1000, rate: 0.37 is 3700)
Bracket(lo, hi, r) == [min |-> Dollars(lo), max |-> Dollars(hi), rate |-> r]
TopBracket(lo, r) == [min |-> Dollars(lo), max |-> Infinity, rate |-> r]

\* ------------------------------------------------------------------------
\* TaxCalculator (lib/tax.ts)
\* ------------------------------------------------------------------------
TAX_BRACKETS_2023 ==
    [s \in FilingStatus \ {"QUALIFYING_SURVIVING_SPOUSE"} |->
       CASE s = "SINGLE" ->
              << Bracket(0, 11000, 1000), Bracket(11000, 44725, 1200),
                 Bracket(44725, 95375, 2200), Bracket(95375, 182050, 2400),
                 Bracket(182050, 231250, 3200), Bracket(231250, 578125, 3500),
                 TopBracket(578125, 3700) >>
         [] s = "MARRIED_FILING_JOINTLY" ->
              << Bracket(0, 22000, 1000), Bracket(22000, 89450, 1200),
                 Bracket(89450, 190750, 2200), Bracket(190750, 364200, 2400),
                 Bracket(364200, 462500, 3200), Bracket(462500, 693750, 3500),
                 TopBracket(693750, 3700) >>
         [] s = "MARRIED_FILING_SEPARATELY" ->
              << Bracket(0, 11000, 1000), Bracket(11000, 44725, 1200),
                 Bracket(44725, 95375, 2200), Bracket(95375, 182100, 2400),
                 Bracket(182100, 231250, 3200), Bracket(231250, 346875, 3500),
                 TopBracket(346875, 3700) >>
         [] s = "HEAD_OF_HOUSEHOLD" ->
              << Bracket(0, 15700, 1000), Bracket(15700, 59850, 1200),
                 Bracket(59850, 95350, 2200), Bracket(95350, 182050, 2400),
                 Bracket(182050, 231250, 3200), Bracket(231250, 578100, 3500),
                 TopBracket(578100, 3700) >>]

STANDARD_DEDUCTIONS_2023 ==
    [s \in FilingStatus |->
       CASE s = "SINGLE" -> 13850
         [] s = "MARRIED_FILING_JOINTLY" -> 27700
         [] s = "MARRIED_FILING_SEPARATELY" -> 13850
         [] s = "HEAD_OF_HOUSEHOLD" -> 20800
         [] s = "QUALIFYING_SURVIVING_SPOUSE" -> 27700]

\* this.TAX_BRACKETS_2023[filingStatus] || this.TAX_BRACKETS_2023[SINGLE]
TaxCalculator_brackets(filingStatus) ==
    IF filingStatus \in DOMAIN TAX_BRACKETS_2023
    THEN TAX_BRACKETS_2023[filingStatus]
    ELSE TAX_BRACKETS_2023["SINGLE"]

\* new Decimal(this.STANDARD_DEDUCTIONS_2023[input.filingStatus] || 13850)
TaxCalculator_standardDeduction(filingStatus) ==
    IF filingStatus \in DOMAIN STANDARD_DEDUCTIONS_2023
    THEN Dollars(STANDARD_DEDUCTIONS_2023[filingStatus])
    ELSE Dollars(13850)

\* new Decimal(bracket.max === Infinity ? Number.MAX_SAFE_INTEGER : bracket.max)
TaxCalculator_bracketMax(bracket) ==
    IF bracket.max = Infinity THEN MAX_SAFE_INTEGER ELSE bracket.max

\* Variant of the walk without the early exit: every bracket is visited.
RECURSIVE TaxCalculator_walk_NoBreak(_, _, _)
TaxCalculator_walk_NoBreak(brackets, i, st) ==
    IF i > Len(brackets) THEN st
    ELSE LET bracketWidth == Minus(TaxCalculator_bracketMax(brackets[i]), brackets[i].min)
             taxableInThisBracket == DecMin(st.remainingIncome, bracketWidth)
             taxForBracket == Times(taxableInThisBracket, brackets[i].rate)
         IN  TaxCalculator_walk_NoBreak(brackets, i + 1,
                 [tax |-> Plus(st.tax, taxForBracket),
                  remainingIncome |-> Minus(st.remainingIncome, taxableInThisBracket),
                  taxed |-> Append(st.taxed, taxableInThisBracket)])

\* Variant of the walk that assigns taxForBracket to tax instead of adding it.
RECURSIVE TaxCalculator_walk_Overwrite(_, _, _)
TaxCalculator_walk_Overwrite(brackets, i, st) ==
    IF i > Len(brackets) THEN st
    ELSE IF Lte(st.remainingIncome, Zero) THEN st
    ELSE LET bracketWidth == Minus(TaxCalculator_bracketMax(brackets[i]), brackets[i].min)
             taxableInThisBracket == DecMin(st.remainingIncome, bracketWidth)
             taxForBracket == Times(taxableInThisBracket, brackets[i].rate)
         IN  TaxCalculator_walk_Overwrite(brackets, i + 1,
                 [tax |-> taxForBracket,
                  remainingIncome |-> Minus(st.remainingIncome, taxableInThisBracket),
                  taxed |-> Append(st.taxed, taxableInThisBracket)])

\* The for loop of calculateTaxLiability from bracket i on.  The walk state
\* is [tax, remainingIncome, taxed], taxed being the sequence of the
\* taxableInThisBracket of the brackets visited.
RECURSIVE TaxCalculator_walk(_, _, _)
TaxCalculator_walk(brackets, i, st) ==
    IF i > Len(brackets) THEN st
    ELSE IF Lte(st.remainingIncome, Zero) THEN st
    ELSE LET bracketWidth == Minus(TaxCalculator_bracketMax(brackets[i]), brackets[i].min)
             taxableInThisBracket == DecMin(st.remainingIncome, bracketWidth)
             taxForBracket == Times(taxableInThisBracket, brackets[i].rate)
         IN  TaxCalculator_walk(brackets, i + 1,
                 [tax |-> Plus(st.tax, taxForBracket),
                  remainingIncome |-> Minus(st.remainingIncome, taxableInThisBracket),
                  taxed |-> Append(st.taxed, taxableInThisBracket)])

TaxCalculator_calculateTaxLiability(taxableIncome, filingStatus) ==
    TaxCalculator_walk(TaxCalculator_brackets(filingStatus), 1,
        [tax |-> Zero, remainingIncome |-> taxableIncome, taxed |-> <<>>])

\* Variant of calculateEITC with the two phaseOutStart amounts exchanged.
TaxCalculator_calculateEITC_SwappedStart(agi, dependents, filingStatus) ==
    IF dependents = 0 THEN Zero
    ELSE LET maxCredit == IF dependents = 1 THEN 3733
                          ELSE IF dependents = 2 THEN 6164 ELSE 6935
             phaseOutStart == IF filingStatus = "MARRIED_FILING_JOINTLY"
                              THEN 19330 ELSE 25220
             phaseOut == Times(Minus(agi, Dollars(phaseOutStart)), 2106)
         IN  IF Lt(agi, Dollars(phaseOutStart)) THEN Dollars(maxCredit)
             ELSE DecMax(Minus(Dollars(maxCredit), phaseOut), Zero)

\* calculateEITC(agi, dependents, filingStatus); phaseOutRate 0.2106 is 2106
TaxCalculator_calculateEITC(agi, dependents, filingStatus) ==
    IF dependents = 0 THEN Zero
    ELSE LET maxCredit == IF dependents = 1 THEN 3733
                          ELSE IF dependents = 2 THEN 6164 ELSE 6935
             phaseOutStart == IF filingStatus = "MARRIED_FILING_JOINTLY"
                              THEN 25220 ELSE 19330
             phaseOut == Times(Minus(agi, Dollars(phaseOutStart)), 2106)
         IN  IF Lt(agi, Dollars(phaseOutStart)) THEN Dollars(maxCredit)
             ELSE DecMax(Minus(Dollars(maxCredit), phaseOut), Zero)

\* Variant whose child tax credit phase-out is not floored at zero.
TaxCalculator_calculateCredits_NoFloor(dependents, agi, filingStatus) ==
    LET childTaxCredit == Dollars(dependents * 2000)
        phaseOutThreshold == IF filingStatus = "MARRIED_FILING_JOINTLY"
                             THEN Dollars(400000) ELSE Dollars(200000)
        phaseOutAmount ==
            Dollars(DivFloor(Minus(agi, phaseOutThreshold), 1000) * 50)
        ctc == IF Gt(agi, phaseOutThreshold)
               THEN Minus(childTaxCredit, phaseOutAmount)
               ELSE childTaxCredit
        eitc == IF Lt(agi, Dollars(50000)) /\ dependents > 0
                THEN TaxCalculator_calculateEITC(agi, dependents, filingStatus)
                ELSE Zero
    IN  [credits |-> Plus(ctc, eitc), ctc |-> ctc, eitc |-> eitc]

\* calculateCredits(dependents, agi, filingStatus).  Besides the returned
\* credits the record keeps the two amounts added to it: ctc (the child tax
\* credit after phase-out) and eitc (Zero when the EITC branch is skipped).
TaxCalculator_calculateCredits(dependents, agi, filingStatus) ==
    LET childTaxCredit == Dollars(dependents * 2000)
        phaseOutThreshold == IF filingStatus = "MARRIED_FILING_JOINTLY"
                             THEN Dollars(400000) ELSE Dollars(200000)
        phaseOutAmount ==
            Dollars(DivFloor(Minus(agi, phaseOutThreshold), 1000) * 50)
        ctc == IF Gt(agi, phaseOutThreshold)
               THEN DecMax(Minus(childTaxCredit, phaseOutAmount), Zero)
               ELSE childTaxCredit
        eitc == IF Lt(agi, Dollars(50000)) /\ dependents > 0
                THEN TaxCalculator_calculateEITC(agi, dependents, filingStatus)
                ELSE Zero
    IN  [credits |-> Plus(ctc, eitc), ctc |-> ctc, eitc |-> eitc]

\* Variant that withholds 15% of every income entry, whatever its type.
RECURSIVE TaxCalculator_calculateWithheld_FlatRate(_)
TaxCalculator_calculateWithheld_FlatRate(incomeEntries) ==
    IF incomeEntries = <<>> THEN Zero
    ELSE LET n == Len(incomeEntries)
         IN  Plus(TaxCalculator_calculateWithheld_FlatRate(SubSeq(incomeEntries, 1, n - 1)),
                  Times(incomeEntries[n].amount, 1500))

\* calculateWithheld(incomeEntries): 0.15 is 1500, 0.10 is 1000
RECURSIVE TaxCalculator_calculateWithheld(_)
TaxCalculator_calculateWithheld(incomeEntries) ==
    IF incomeEntries = <<>> THEN Zero
    ELSE LET n == Len(incomeEntries)
             entry == incomeEntries[n]
             withheld == TaxCalculator_calculateWithheld(SubSeq(incomeEntries, 1, n - 1))
         IN  IF entry.incomeType = "W2_WAGES"
             THEN Plus(withheld, Times(entry.amount, 1500))
             ELSE IF entry.incomeType = "INTEREST" \/ entry.incomeType = "DIVIDENDS"
             THEN Plus(withheld, Times(entry.amount, 1000))
             ELSE withheld

\* calculateAGI(totalIncome, incomeEntries): the forEach body is empty
TaxCalculator_calculateAGI(totalIncome, incomeEntries) == totalIncome

\* Variant that always takes the standard deduction.
TaxCalculator_deduction_StandardOnly(standardDeduction, itemizedDeduction) ==
    standardDeduction

\* Decimal.max(standardDeduction, itemizedDeduction)
TaxCalculator_deduction(standardDeduction, itemizedDeduction) ==
    DecMax(standardDeduction, itemizedDeduction)

\* Variant without the floor at zero.
TaxCalculator_taxableIncome_NoFloor(adjustedGrossIncome, deduction) ==
    Minus(adjustedGrossIncome, deduction)

\* Decimal.max(adjustedGrossIncome.minus(deduction), new Decimal(0))
TaxCalculator_taxableIncome(adjustedGrossIncome, deduction) ==
    DecMax(Minus(adjustedGrossIncome, deduction), Zero)

\* Variant that owes the whole netTax, whatever was withheld.
TaxCalculator_finalAmounts_IgnoreWithheld(netTax, withheld) ==
    [refundAmount |-> DecMax(Minus(withheld, netTax), Zero),
     amountOwed |-> netTax]

\* refundAmount and amountOwed from netTax and withheld
TaxCalculator_finalAmounts(netTax, withheld) ==
    [refundAmount |-> DecMax(Minus(withheld, netTax), Zero),
     amountOwed |-> DecMax(Minus(netTax, withheld), Zero)]

\* Variant of calculateTax that takes the standard deduction of the tax year
\* before 2023 (900 less than the 2023 amount) for a taxYear below 2023.
TaxCalculator_calculateTax_ByYear(input) ==
    LET totalIncome == SumAmounts(input.incomeEntries)
        adjustedGrossIncome == TaxCalculator_calculateAGI(totalIncome, input.incomeEntries)
        standardDeduction ==
            IF input.taxYear < 2023
            THEN Minus(TaxCalculator_standardDeduction(input.filingStatus), Dollars(900))
            ELSE TaxCalculator_standardDeduction(input.filingStatus)
        itemizedDeduction == SumAmounts(input.deductionEntries)
        deduction == TaxCalculator_deduction(standardDeduction, itemizedDeduction)
        taxableIncome == TaxCalculator_taxableIncome(adjustedGrossIncome, deduction)
        taxLiability ==
            TaxCalculator_calculateTaxLiability(taxableIncome, input.filingStatus).tax
        cr == TaxCalculator_calculateCredits(input.dependents, adjustedGrossIncome,
                                             input.filingStatus)
        totalCredits == cr.credits
        netTax == DecMax(Minus(taxLiability, totalCredits), Zero)
        withheld == TaxCalculator_calculateWithheld(input.incomeEntries)
        final == TaxCalculator_finalAmounts(netTax, withheld)
    IN  [impl |-> "calculateTax", error |-> "none",
         totalIncome |-> totalIncome,
         adjustedGrossIncome |-> adjustedGrossIncome,
         standardDeduction |-> standardDeduction,
         itemizedDeduction |-> itemizedDeduction,
         taxableIncome |-> taxableIncome,
         taxLiability |-> taxLiability,
         totalCredits |-> totalCredits,
         refundAmount |-> final.refundAmount,
         amountOwed |-> final.amountOwed,
         deduction |-> deduction, netTax |-> netTax, withheld |-> withheld,
         ctc |-> cr.ctc, eitc |-> cr.eitc]

\* TaxCalculator.calculateTax(input).  The record holds the fields of the
\* returned TaxCalculationResult and, for inspection, the locals deduction,
\* netTax, withheld and the two parts of totalCredits.  The function has no
\* failure path: error is always "none".
TaxCalculator_calculateTax(input) ==
    LET totalIncome == SumAmounts(input.incomeEntries)
        adjustedGrossIncome == TaxCalculator_calculateAGI(totalIncome, input.incomeEntries)
        standardDeduction == TaxCalculator_standardDeduction(input.filingStatus)
        itemizedDeduction == SumAmounts(input.deductionEntries)
        deduction == TaxCalculator_deduction(standardDeduction, itemizedDeduction)
        taxableIncome == TaxCalculator_taxableIncome(adjustedGrossIncome, deduction)
        taxLiability ==
            TaxCalculator_calculateTaxLiability(taxableIncome, input.filingStatus).tax
        cr == TaxCalculator_calculateCredits(input.dependents, adjustedGrossIncome,
                                             input.filingStatus)
        totalCredits == cr.credits
        netTax == DecMax(Minus(taxLiability, totalCredits), Zero)
        withheld == TaxCalculator_calculateWithheld(input.incomeEntries)
        final == TaxCalculator_finalAmounts(netTax, withheld)
    IN  [impl |-> "calculateTax", error |-> "none",
         totalIncome |-> totalIncome,
         adjustedGrossIncome |-> adjustedGrossIncome,
         standardDeduction |-> standardDeduction,
         itemizedDeduction |-> itemizedDeduction,
         taxableIncome |-> taxableIncome,
         taxLiability |-> taxLiability,
         totalCredits |-> totalCredits,
         refundAmount |-> final.refundAmount,
         amountOwed |-> final.amountOwed,
         deduction |-> deduction, netTax |-> netTax, withheld |-> withheld,
         ctc |-> cr.ctc, eitc |-> cr.eitc]

\* The input the routes assemble from the persisted tax return
\* (recalculateTaxTotals): dependents is the number of dependent records.
TaxCalculationInput(tr) ==
    [filingStatus |-> tr.filingStatus,
     taxYear |-> tr.taxYear,
     incomeEntries |-> tr.incomeEntries,
     deductionEntries |-> tr.deductionEntries,
     dependents |-> Len(tr.dependents)]

\* ------------------------------------------------------------------------
\* taxCalculationService (calculateTaxes)
\* ------------------------------------------------------------------------
TAX_BRACKETS_SINGLE ==
    << Bracket(0, 11000, 1000), Bracket(11000, 44725, 1200),
       Bracket(44725, 95375, 2200), Bracket(95375, 182050, 2400),
       Bracket(182050, 231250, 3200), Bracket(231250, 578125, 3500),
       TopBracket(578125, 3700) >>

TAX_BRACKETS_MARRIED ==
    << Bracket(0, 22000, 1000), Bracket(22000, 89450, 1200),
       Bracket(89450, 190750, 2200), Bracket(190750, 364200, 2400),
       Bracket(364200, 462500, 3200), Bracket(462500, 693750, 3500),
       TopBracket(693750, 3700) >>

STANDARD_DEDUCTIONS ==
    [s \in FilingStatus |->
       CASE s = "SINGLE" -> Dollars(13850)
         [] s = "MARRIED_FILING_JOINTLY" -> Dollars(27700)
         [] s = "MARRIED_FILING_SEPARATELY" -> Dollars(13850)
         [] s = "HEAD_OF_HOUSEHOLD" -> Dollars(20800)
         [] s = "QUALIFYING_SURVIVING_SPOUSE" -> Dollars(27700)]

getTaxBrackets(filingStatus) ==
    IF filingStatus = "MARRIED_FILING_JOINTLY"
       \/ filingStatus = "QUALIFYING_SURVIVING_SPOUSE"
    THEN TAX_BRACKETS_MARRIED
    ELSE TAX_BRACKETS_SINGLE

\* STANDARD_DEDUCTIONS[filingStatus] || STANDARD_DEDUCTIONS.SINGLE
getStandardDeduction(filingStatus) ==
    IF filingStatus \in DOMAIN STANDARD_DEDUCTIONS
    THEN STANDARD_DEDUCTIONS[filingStatus]
    ELSE STANDARD_DEDUCTIONS["SINGLE"]

\* The for loop of calculateTaxLiability from bracket i on; here the
\* bracket is added only when taxableInThisBracket > 0.
RECURSIVE walk(_, _, _)
walk(brackets, i, st) ==
    IF i > Len(brackets) THEN st
    ELSE IF Lte(st.remainingIncome, Zero) THEN st
    ELSE LET taxableInThisBracket ==
                 DecMin(st.remainingIncome, Minus(brackets[i].max, brackets[i].min))
         IN  IF Gt(taxableInThisBracket, Zero)
             THEN walk(brackets, i + 1,
                      [tax |-> Plus(st.tax, Times(taxableInThisBracket, brackets[i].rate)),
                       remainingIncome |-> Minus(st.remainingIncome, taxableInThisBracket),
                       taxed |-> Append(st.taxed, taxableInThisBracket)])
             ELSE walk(brackets, i + 1,
                      [st EXCEPT !.taxed = Append(st.taxed, Zero)])

calculateTaxLiability(taxableIncome, filingStatus) ==
    walk(getTaxBrackets(filingStatus), 1,
         [tax |-> Zero, remainingIncome |-> taxableIncome, taxed |-> <<>>])

\* dependents.filter(dep => dep.isQualifyingChild).length
RECURSIVE qualifyingChildren(_)
qualifyingChildren(dependents) ==
    IF dependents = <<>> THEN 0
    ELSE qualifyingChildren(Tail(dependents))
         + (IF Head(dependents).isQualifyingChild THEN 1 ELSE 0)

calculateCredits(tr) ==
    LET childTaxCredit == TimesInt(Dollars(qualifyingChildren(tr.dependents)), 2000)
    IN  Plus(Zero, childTaxCredit)

\* Decimal.max(standardDeduction, itemizedDeduction)
deductionToUse(standardDeduction, itemizedDeduction) ==
    DecMax(standardDeduction, itemizedDeduction)

\* Variant that refunds totalCredits - taxLiability without comparing them.
finalAmounts_NoComparison(taxLiability, totalCredits) ==
    LET netTax == DecMax(Minus(taxLiability, totalCredits), Zero)
    IN  [netTax |-> netTax,
         refundAmount |-> Minus(totalCredits, taxLiability),
         amountOwed |-> netTax]

\* netTax, refundAmount and amountOwed from taxLiability and totalCredits
finalAmounts(taxLiability, totalCredits) ==
    LET netTax == DecMax(Minus(taxLiability, totalCredits), Zero)
    IN  [netTax |-> netTax,
         refundAmount |-> IF Gt(totalCredits, taxLiability)
                          THEN Minus(totalCredits, taxLiability) ELSE Zero,
         amountOwed |-> netTax]

\* calculateTaxes(taxReturn).  The record holds the returned fields and the
\* locals deductionToUse and netTax.  No failure path either.
calculateTaxes(tr) ==
    LET totalIncome == SumAmounts(tr.incomeEntries)
        adjustedGrossIncome == totalIncome
        itemizedDeduction == SumAmounts(tr.deductionEntries)
        standardDeduction == getStandardDeduction(tr.filingStatus)
        used == deductionToUse(standardDeduction, itemizedDeduction)
        taxableIncome == DecMax(Minus(adjustedGrossIncome, used), Zero)
        taxLiability == calculateTaxLiability(taxableIncome, tr.filingStatus).tax
        totalCredits == calculateCredits(tr)
        final == finalAmounts(taxLiability, totalCredits)
    IN  [impl |-> "calculateTaxes", error |-> "none",
         totalIncome |-> totalIncome,
         adjustedGrossIncome |-> adjustedGrossIncome,
         standardDeduction |-> standardDeduction,
         itemizedDeduction |-> itemizedDeduction,
         taxableIncome |-> taxableIncome,
         taxLiability |-> taxLiability,
         totalCredits |-> totalCredits,
         refundAmount |-> final.refundAmount,
         amountOwed |-> final.amountOwed,
         deductionToUse |-> used, netTax |-> final.netTax]

\* ------------------------------------------------------------------------
\* Inputs
\* ------------------------------------------------------------------------
MaxIncomeEntries == 2
MaxDeductionEntries == 2
MaxDependents == 3
MaxCalls == 2

\* filingStatus reaches the engine as a string: the five enum values and a
\* string that is none of them
FilingStatusInputs == FilingStatus \cup {"UNRECOGNIZED"}

TaxYears == {2022, 2023}

Income(t, a) == [incomeType |-> t, amount |-> a]
Deduction(t, a) == [deductionType |-> t, amount |-> a]

IncomeSamples ==
    { Income("W2_WAGES", Dollars(75000)),
      Income("DIVIDENDS", Dollars(30000)),
      Income("BUSINESS_INCOME", Dollars(250000)),
      Income("INTEREST", Cents(18000, 50)),
      Income("OTHER_INCOME", Dollars(0 - 5000)) }

DeductionSamples ==
    { Deduction("MORTGAGE_INTEREST", Dollars(8500)),
      Deduction("CHARITABLE_CONTRIBUTIONS", Cents(20000, 25)) }

\* n dependent records, the first q of them qualifying children
Dependents(n, q) == [i \in 1..n |-> [isQualifyingChild |-> i <= q]]

DependentInputs ==
    UNION { { Dependents(n, q) : q \in 0..n } : n \in 0..MaxDependents }

SeqsUpTo(S, n) == UNION { [1..k -> S] : k \in 0..n }

TaxReturnInputs ==
    [filingStatus : FilingStatusInputs,
     taxYear : TaxYears,
     incomeEntries : SeqsUpTo(IncomeSamples, MaxIncomeEntries),
     deductionEntries : SeqsUpTo(DeductionSamples, MaxDeductionEntries),
     dependents : DependentInputs]

\* ------------------------------------------------------------------------
\* State
\* ------------------------------------------------------------------------
VARIABLES
    taxReturn,   \* the tax return with its entries and dependents
    calc,        \* what the last call of the engine returned
    calls,       \* the calculateTaxLiability calls made so far
    db,          \* the persisted records (prisma)
    pending,     \* the requests in flight, each with its position
    response     \* the response to the last completed request

vars == <<taxReturn, calc, calls, db, pending, response>>

\* the tables before any record is created
EmptyDatabase ==
    [taxReturns |-> <<>>, incomeEntries |-> {}, deductionEntries |-> {},
     dependents |-> {}]

NoResponse == [route |-> "none", status |-> 0]

\* the engine on its own: nothing persisted, no request
NoRequests == db = EmptyDatabase /\ pending = <<>> /\ response = NoResponse

NoCalc == [impl |-> "none"]

EmptyTaxReturn ==
    [filingStatus |-> "SINGLE", taxYear |-> 2023, incomeEntries |-> <<>>,
     deductionEntries |-> <<>>, dependents |-> <<>>]

Init ==
    /\ taxReturn \in TaxReturnInputs
    /\ calc = NoCalc
    /\ calls = <<>>
    /\ NoRequests

\* A behaviour is one call of the engine on the tax return drawn.
\* recalculateTaxTotals: TaxCalculator.calculateTax on the assembled input
CalculateTax ==
    /\ calc = NoCalc
    /\ calc' = TaxCalculator_calculateTax(TaxCalculationInput(taxReturn))
    /\ UNCHANGED <<taxReturn, calls, db, pending, response>>

\* calculateTaxes on the tax return with its relations
CalculateTaxes ==
    /\ calc = NoCalc
    /\ calc' = calculateTaxes(taxReturn)
    /\ UNCHANGED <<taxReturn, calls, db, pending, response>>

Next == CalculateTax \/ CalculateTaxes

Spec == Init /\ [][Next]_vars

\* ------------------------------------------------------------------------
\* The bracket computation on its own: a filing status is fixed and
\* calculateTaxLiability of one implementation is called on taxable incomes
\* ------------------------------------------------------------------------
TaxableSamples ==
    { Zero, Cents(0, 1), Dollars(11000), Cents(11000, 1), Cents(12345, 67),
      Dollars(15700), Dollars(22000), Dollars(44725), Dollars(50000),
      Dollars(59850), Dollars(89450), Dollars(95350), Dollars(95375),
      Dollars(182050), Dollars(182100), Dollars(190750), Dollars(231250),
      Dollars(346875), Dollars(364200), Dollars(462500), Dollars(578100),
      Dollars(578125), Dollars(693750), Dollars(1000000) }

InitBrackets ==
    /\ \E fs \in FilingStatusInputs :
          taxReturn = [EmptyTaxReturn EXCEPT !.filingStatus = fs]
    /\ calc = NoCalc
    /\ calls = <<>>
    /\ NoRequests

\* one call; the function returns normally in every case (error "none")
Call(impl, brackets, taxableIncome, st) ==
    [impl |-> impl, filingStatus |-> taxReturn.filingStatus,
     brackets |-> brackets, taxableIncome |-> taxableIncome, error |-> "none",
     tax |-> st.tax, remainingIncome |-> st.remainingIncome, taxed |-> st.taxed]

TaxCalculatorLiability ==
    /\ Len(calls) < MaxCalls
    /\ IF calls = <<>> THEN TRUE ELSE calls[1].impl = "TaxCalculator"
    /\ \E ti \in TaxableSamples :
          calls' = Append(calls,
              Call("TaxCalculator", TaxCalculator_brackets(taxReturn.filingStatus), ti,
                   TaxCalculator_calculateTaxLiability(ti, taxReturn.filingStatus)))
    /\ UNCHANGED <<taxReturn, calc, db, pending, response>>

ServiceLiability ==
    /\ Len(calls) < MaxCalls
    /\ IF calls = <<>> THEN TRUE ELSE calls[1].impl = "taxCalculationService"
    /\ \E ti \in TaxableSamples :
          calls' = Append(calls,
              Call("taxCalculationService", getTaxBrackets(taxReturn.filingStatus), ti,
                   calculateTaxLiability(ti, taxReturn.filingStatus)))
    /\ UNCHANGED <<taxReturn, calc, db, pending, response>>

NextBrackets == TaxCalculatorLiability \/ ServiceLiability

SpecBrackets == InitBrackets /\ [][NextBrackets]_vars

\* ------------------------------------------------------------------------
\* Properties
\* ------------------------------------------------------------------------
Called == calc.impl # "none"

\* the part of taxableIncome lying between bracket.min and bracket.max
InsideBracket(taxableIncome, bracket) ==
    IF Lte(taxableIncome, bracket.min) THEN Zero
    ELSE IF Lt(bracket.max, taxableIncome) THEN Minus(bracket.max, bracket.min)
    ELSE Minus(taxableIncome, bracket.min)

RECURSIVE MarginalSum(_, _, _)
MarginalSum(brackets, n, taxableIncome) ==
    IF n = 0 THEN Zero
    ELSE Plus(MarginalSum(brackets, n - 1, taxableIncome),
              Times(InsideBracket(taxableIncome, brackets[n]), brackets[n].rate))

\* C4: the liability a call returns is the sum over the brackets of its
\* schedule of (taxable income inside the bracket) x (the bracket's rate);
\* SINGLE with taxable income 50000 gives 6307.50.
C4_BracketCorrectness ==
    \A i \in 1..Len(calls) :
       /\ calls[i].tax =
             MarginalSum(calls[i].brackets, Len(calls[i].brackets), calls[i].taxableIncome)
       /\ (calls[i].filingStatus = "SINGLE" /\ calls[i].taxableIncome = Dollars(50000))
             => calls[i].tax = Cents(6307, 50)

C4_Witness ==
    /\ Len(calls) = 2
    /\ calls[1].filingStatus = "SINGLE"
    /\ calls[1].taxableIncome = Dollars(50000)
    /\ calls[1].tax = Cents(6307, 50)
    /\ calls[2].taxableIncome = Dollars(1000000)
    /\ Len(calls[2].taxed) = 7

\* C5: for a fixed filing status, a call on a taxable income that is not
\* smaller returns a liability that is not smaller.
C5_Monotonicity ==
    \A i, j \in 1..Len(calls) :
       Lte(calls[i].taxableIncome, calls[j].taxableIncome)
          => Lte(calls[i].tax, calls[j].tax)

C5_Witness ==
    /\ Len(calls) = 2
    /\ Lt(calls[2].taxableIncome, calls[1].taxableIncome)
    /\ Lt(calls[2].tax, calls[1].tax)
    /\ Len(calls[1].taxed) > Len(calls[2].taxed)

\* C6: a call of TaxCalculator.calculateTaxLiability for a filing status
\* that has no bracket sequence fails with UnknownScheduleError.
C6_UnknownScheduleFails ==
    \A i \in 1..Len(calls) :
       (calls[i].impl = "TaxCalculator"
          /\ calls[i].filingStatus \notin DOMAIN TAX_BRACKETS_2023)
       => calls[i].error = "UnknownScheduleError"

\* the input is valid: a filing status of the enumeration, no negative amount
ValidInput ==
    /\ taxReturn.filingStatus \in FilingStatus
    /\ \A i \in 1..Len(taxReturn.incomeEntries) :
          Lte(Zero, taxReturn.incomeEntries[i].amount)
    /\ \A i \in 1..Len(taxReturn.deductionEntries) :
          Lte(Zero, taxReturn.deductionEntries[i].amount)

NonZero(a) == ~IsZero(a)

\* the deduction the call subtracted from the adjusted gross income
DeductionUsed == IF calc.impl = "calculateTax" THEN calc.deduction ELSE calc.deductionToUse

\* the child tax credit of the call (the only credit of calculateTaxes)
ChildTaxCreditOf == IF calc.impl = "calculateTax" THEN calc.ctc ELSE calc.totalCredits

\* C1: the returned taxableIncome is max(adjustedGrossIncome -
\* max(standardDeduction, itemizedDeduction), 0) of the same result, in both
\* implementations.
C1_TaxableIncome ==
    Called =>
       LET larger == IF Lt(calc.standardDeduction, calc.itemizedDeduction)
                     THEN calc.itemizedDeduction ELSE calc.standardDeduction
           rest == Minus(calc.adjustedGrossIncome, larger)
       IN  calc.taxableIncome = IF Lt(rest, Zero) THEN Zero ELSE rest

C1_Witness ==
    /\ calc.impl = "calculateTaxes"
    /\ Lt(calc.standardDeduction, calc.itemizedDeduction)
    /\ Lt(Zero, calc.taxableIncome)
    /\ Len(taxReturn.incomeEntries) = 2

\* C2: refundAmount and amountOwed of a result are never both nonzero.
C2_MutualExclusivity ==
    Called => ~(NonZero(calc.refundAmount) /\ NonZero(calc.amountOwed))

C2_Witness ==
    /\ calc.impl = "calculateTax"
    /\ Lt(Zero, calc.netTax)
    /\ Lt(calc.netTax, calc.withheld)
    /\ NonZero(calc.refundAmount)
    /\ IsZero(calc.amountOwed)

\* C3 as stated: for every valid input exactly one of refundAmount and
\* amountOwed is nonzero.
C3_ExactlyOneNonZero ==
    (Called /\ ValidInput) =>
        (NonZero(calc.refundAmount) /\ IsZero(calc.amountOwed))
        \/ (IsZero(calc.refundAmount) /\ NonZero(calc.amountOwed))

\* what the net tax is set against: the withholding estimate in
\* calculateTax; in calculateTaxes the credits are set against the liability
Settled ==
    IF calc.impl = "calculateTax" THEN calc.netTax = calc.withheld
    ELSE calc.totalCredits = calc.taxLiability

\* C3 amended: for every valid input at most one of refundAmount and
\* amountOwed is nonzero, and both are zero exactly when the two amounts set
\* against each other are equal.
C3_AtMostOneNonZero ==
    (Called /\ ValidInput) =>
        /\ ~(NonZero(calc.refundAmount) /\ NonZero(calc.amountOwed))
        /\ (IsZero(calc.refundAmount) /\ IsZero(calc.amountOwed)) <=> Settled

C3_Witness ==
    /\ Called /\ ValidInput
    /\ IsZero(calc.refundAmount) /\ IsZero(calc.amountOwed)
    /\ Settled

\* C7: the standard-deduction lookup fails with UnknownScheduleError for a
\* filing status that has no configured amount.
C7_UnknownDeductionFails ==
    (Called /\ taxReturn.filingStatus \notin FilingStatus)
        => calc.error = "UnknownScheduleError"

RECURSIVE Total(_)
Total(entries) ==
    IF entries = <<>> THEN Zero ELSE Plus(Head(entries).amount, Total(Tail(entries)))

\* C8: itemizedDeduction is the sum of the deduction entries' amounts (zero
\* for none) and the deduction subtracted is the larger of standard and
\* itemized; SINGLE with income 75000 and itemized 8500 uses 13850 and has
\* taxable income 61150.
C8_DeductionSelection ==
    Called =>
       /\ calc.itemizedDeduction = Total(taxReturn.deductionEntries)
       /\ DeductionUsed = IF Lt(calc.standardDeduction, calc.itemizedDeduction)
                          THEN calc.itemizedDeduction ELSE calc.standardDeduction
       /\ (taxReturn.filingStatus = "SINGLE" /\ calc.totalIncome = Dollars(75000)
             /\ calc.itemizedDeduction = Dollars(8500))
          => (DeductionUsed = Dollars(13850) /\ calc.taxableIncome = Dollars(61150))

C8_Witness ==
    /\ Called
    /\ taxReturn.filingStatus = "SINGLE" /\ calc.totalIncome = Dollars(75000)
    /\ calc.itemizedDeduction = Dollars(8500)
    /\ calc.taxableIncome = Dollars(61150)

\* the Child Tax Credit as claimed, from the number of qualifying children
ClaimedChildTaxCredit(qualifyingChildCount, agi, filingStatus) ==
    LET base == qualifyingChildCount * 2000
        threshold == IF filingStatus = "MARRIED_FILING_JOINTLY" THEN 400000 ELSE 200000
        reduction == ((Minus(agi, Dollars(threshold)).w) \div 1000) * 50
    IN  IF Lt(Dollars(threshold), agi)
        THEN (IF base - reduction > 0 THEN Dollars(base - reduction) ELSE Zero)
        ELSE Dollars(base)

\* C9: the child tax credit of a call is qualifyingChildCount x 2000, phased
\* out above the threshold of the filing status.
C9_ChildTaxCredit ==
    Called =>
       ChildTaxCreditOf = ClaimedChildTaxCredit(qualifyingChildren(taxReturn.dependents),
                              calc.adjustedGrossIncome, taxReturn.filingStatus)

\* the Earned Income Tax Credit as claimed
ClaimedEITC(dependentCount, agi, filingStatus) ==
    LET maxCredit == CASE dependentCount = 1 -> 3733
                       [] dependentCount = 2 -> 6164
                       [] OTHER -> 6935
        phaseOutStart == IF filingStatus = "MARRIED_FILING_JOINTLY" THEN 25220 ELSE 19330
        reduced == Minus(Dollars(maxCredit), Times(Minus(agi, Dollars(phaseOutStart)), 2106))
    IN  IF ~(dependentCount > 0 /\ Lt(agi, Dollars(50000))) THEN Zero
        ELSE IF Lt(agi, Dollars(phaseOutStart)) THEN Dollars(maxCredit)
        ELSE IF Lt(reduced, Zero) THEN Zero ELSE reduced

\* C10: the EITC of TaxCalculator.calculateTax is zero unless dependentCount
\* > 0 and AGI < 50000; then it is maxCredit below phaseOutStart and
\* max(maxCredit - (AGI - phaseOutStart) x 0.2106, 0) from there on.
C10_EarnedIncomeTaxCredit ==
    calc.impl = "calculateTax" =>
       /\ calc.eitc = ClaimedEITC(Len(taxReturn.dependents), calc.adjustedGrossIncome,
                                  taxReturn.filingStatus)
       /\ NonZero(calc.eitc) =>
             (Len(taxReturn.dependents) > 0 /\ Lt(calc.adjustedGrossIncome, Dollars(50000)))

C10_Witness ==
    /\ calc.impl = "calculateTax"
    /\ taxReturn.filingStatus = "SINGLE"
    /\ Len(taxReturn.dependents) = 1
    /\ calc.adjustedGrossIncome = Dollars(30000)
    /\ calc.eitc = Dec(1485, 898000)

\* C11: in both implementations the returned totalCredits is the child tax
\* credit of the call plus the Earned Income Tax Credit as claimed, the
\* latter being zero unless dependentCount > 0 and AGI < 50000.
C11_TotalCredits ==
    Called =>
       LET childTaxCredit ==
              IF calc.impl = "calculateTax" THEN calc.ctc
              ELSE Dollars(2000 * qualifyingChildren(taxReturn.dependents))
           dependentCount ==
              IF calc.impl = "calculateTax" THEN Len(taxReturn.dependents)
              ELSE qualifyingChildren(taxReturn.dependents)
       IN  calc.totalCredits =
              Plus(childTaxCredit,
                   ClaimedEITC(dependentCount, calc.adjustedGrossIncome,
                               taxReturn.filingStatus))

\* the scenario of C12: TaxCalculator.calculateTax for MARRIED_FILING_JOINTLY,
\* AGI 30000 and two dependents, both qualifying children
EITCScenario ==
    /\ calc.impl = "calculateTax"
    /\ taxReturn.filingStatus = "MARRIED_FILING_JOINTLY"
    /\ calc.adjustedGrossIncome = Dollars(30000)
    /\ taxReturn.dependents = Dependents(2, 2)

\* C12 as stated: in the scenario the child tax credit is 4000, the EITC is
\* the full maxCredit 6164 and totalCredits is 10164.
C12_ScenarioFullEITC ==
    EITCScenario =>
       /\ calc.ctc = Dollars(4000)
       /\ calc.eitc = Dollars(6164)
       /\ calc.totalCredits = Dollars(10164)

\* C12: in the scenario the child tax credit is 4000, the EITC is in its
\* phase-out (30000 >= 25220): 6164 - (30000 - 25220) x 0.2106 = 5157.332,
\* and totalCredits is 9157.332.
C12_ScenarioPhasedEITC ==
    EITCScenario =>
       /\ calc.ctc = Dollars(4000)
       /\ calc.eitc = Dec(5157, 332000)
       /\ calc.totalCredits = Dec(9157, 332000)

C12_Witness ==
    /\ EITCScenario
    /\ calc.totalCredits = Dec(9157, 332000)

\* C13: for every valid input (no negative amount) the tax liability, the
\* child tax credit, the EITC and totalCredits of the call are all >= 0,
\* however far the AGI lies beyond the phase-out thresholds.
C13_NonNegativity ==
    (Called /\ ValidInput) =>
       /\ Lte(Zero, calc.taxLiability)
       /\ Lte(Zero, ChildTaxCreditOf)
       /\ calc.impl = "calculateTax" => Lte(Zero, calc.eitc)
       /\ Lte(Zero, calc.totalCredits)

\* a call whose child tax credit is phased out past zero: SINGLE, AGI 500000,
\* three dependents (6000 - 300 x 50 < 0)
C13_Witness ==
    /\ calc.impl = "calculateTax"
    /\ ValidInput
    /\ taxReturn.filingStatus = "SINGLE"
    /\ Len(taxReturn.dependents) = 3
    /\ calc.adjustedGrossIncome = Dollars(500000)
    /\ calc.ctc = Zero
    /\ calc.totalCredits = Zero
    /\ Gt(calc.taxLiability, Zero)

\* the withholding rate claimed for an income type, in ten-thousandths
ClaimedWithholdingRate(incomeType) ==
    CASE incomeType = "W2_WAGES" -> 1500
      [] incomeType \in {"INTEREST", "DIVIDENDS"} -> 1000
      [] OTHER -> 0

\* the withholding estimate as claimed, summed from the first entry on
RECURSIVE ClaimedWithheld(_)
ClaimedWithheld(incomeEntries) ==
    IF incomeEntries = <<>> THEN Zero
    ELSE Plus(Times(Head(incomeEntries).amount,
                    ClaimedWithholdingRate(Head(incomeEntries).incomeType)),
              ClaimedWithheld(Tail(incomeEntries)))

\* C14: the withholding estimate of TaxCalculator.calculateTax is the sum
\* over the income entries of 15% of each W2_WAGES amount, 10% of each
\* INTEREST or DIVIDENDS amount and nothing for any other type.
C14_WithholdingEstimate ==
    calc.impl = "calculateTax" =>
       calc.withheld = ClaimedWithheld(taxReturn.incomeEntries)

\* wages of 75000 and interest of 18000.50: 11250 + 1800.05 withheld
C14_Witness ==
    /\ calc.impl = "calculateTax"
    /\ taxReturn.incomeEntries =
          << Income("W2_WAGES", Dollars(75000)), Income("INTEREST", Cents(18000, 50)) >>
    /\ calc.withheld = Cents(13050, 5)

\* max(a - b, 0), spelled out by comparison
PositivePart(a, b) == IF Lt(b, a) THEN Minus(a, b) ELSE Zero

\* C15: in TaxCalculator.calculateTax netTax = max(taxLiability -
\* totalCredits, 0), refundAmount = max(withheld - netTax, 0) and
\* amountOwed = max(netTax - withheld, 0).
C15_WithholdingAwareMode ==
    calc.impl = "calculateTax" =>
       /\ calc.netTax = PositivePart(calc.taxLiability, calc.totalCredits)
       /\ calc.refundAmount = PositivePart(calc.withheld, calc.netTax)
       /\ calc.amountOwed = PositivePart(calc.netTax, calc.withheld)

\* a call with credits, whose net tax exceeds a nonzero withholding estimate
C15_Witness ==
    /\ calc.impl = "calculateTax"
    /\ NonZero(calc.totalCredits)
    /\ Lt(Zero, calc.withheld)
    /\ Lt(calc.withheld, calc.netTax)
    /\ Lt(calc.netTax, calc.taxLiability)
    /\ IsZero(calc.refundAmount)
    /\ calc.amountOwed = Minus(calc.netTax, calc.withheld)

\* C16: in calculateTaxes refundAmount = max(totalCredits - taxLiability, 0)
\* and amountOwed = netTax = max(taxLiability - totalCredits, 0).
C16_CreditOnlyMode ==
    calc.impl = "calculateTaxes" =>
       /\ calc.refundAmount = PositivePart(calc.totalCredits, calc.taxLiability)
       /\ calc.netTax = PositivePart(calc.taxLiability, calc.totalCredits)
       /\ calc.amountOwed = calc.netTax

\* a call whose credits exceed a nonzero liability
C16_Witness ==
    /\ calc.impl = "calculateTaxes"
    /\ Lt(Zero, calc.taxLiability)
    /\ Lt(calc.taxLiability, calc.totalCredits)
    /\ calc.refundAmount = Minus(calc.totalCredits, calc.taxLiability)
    /\ IsZero(calc.amountOwed)
    /\ IsZero(calc.netTax)

\* C17: in both implementations totalIncome is the sum of the amounts of the
\* income entries (zero when there is none) and adjustedGrossIncome equals
\* totalIncome, whatever the income types.
C17_IncomeAggregation ==
    Called =>
       /\ calc.totalIncome = Total(taxReturn.incomeEntries)
       /\ taxReturn.incomeEntries = <<>> => calc.totalIncome = Zero
       /\ calc.adjustedGrossIncome = calc.totalIncome

\* two entries of different types: 250000 of business income and 18000.50
\* of interest
C17_Witness ==
    /\ Called
    /\ taxReturn.incomeEntries =
          << Income("BUSINESS_INCOME", Dollars(250000)), Income("INTEREST", Cents(18000, 50)) >>
    /\ calc.totalIncome = Cents(268000, 50)
    /\ calc.adjustedGrossIncome = Cents(268000, 50)

\* a is a whole number of cents
WholeCents(a) == a.u % (Micro \div 100) = 0

\* the monetary fields of the returned result
MonetaryFields ==
    { "totalIncome", "adjustedGrossIncome", "standardDeduction", "itemizedDeduction",
      "taxableIncome", "taxLiability", "totalCredits", "refundAmount", "amountOwed" }

\* every amount of the input is a whole number of cents
WholeCentInput ==
    /\ \A i \in 1..Len(taxReturn.incomeEntries) :
          WholeCents(taxReturn.incomeEntries[i].amount)
    /\ \A i \in 1..Len(taxReturn.deductionEntries) :
          WholeCents(taxReturn.deductionEntries[i].amount)

\* C19: when every input amount is a whole number of cents, every monetary
\* field of the result is a whole number of cents (each product with a rate
\* having been rounded to the nearest cent).
C19_CentExactness ==
    (Called /\ WholeCentInput) =>
       \A f \in MonetaryFields : WholeCents(calc[f])

\* the input has a negative income or deduction amount
NegativeAmount ==
    \/ \E i \in 1..Len(taxReturn.incomeEntries) :
          Lt(taxReturn.incomeEntries[i].amount, Zero)
    \/ \E i \in 1..Len(taxReturn.deductionEntries) :
          Lt(taxReturn.deductionEntries[i].amount, Zero)

\* C20: a call whose input has a negative income or deduction amount, more
\* qualifying children than dependents, or a taxYear outside 2020..2030
\* fails with ValidationError and returns no result.
C20_InvalidInputFails ==
    (/\ Called
     /\ \/ NegativeAmount
        \/ Len(taxReturn.dependents) < qualifyingChildren(taxReturn.dependents)
        \/ taxReturn.taxYear \notin 2020..2030)
       => calc.error = "ValidationError"

\* the sum of a sequence of amounts
RECURSIVE SumOf(_)
SumOf(amounts) ==
    IF amounts = <<>> THEN Zero ELSE Plus(Head(amounts), SumOf(Tail(amounts)))

\* the brackets whose lower edge lies below the taxable income
BracketsReached(brackets, taxableIncome) ==
    { k \in 1..Len(brackets) : Lt(brackets[k].min, taxableIncome) }

C26_ImplementationsAgree ==
    \A i \in 1..Len(calls) :
       calls[i].filingStatus \in FilingStatus =>
          /\ TaxCalculator_calculateTaxLiability(calls[i].taxableIncome,
                                                 calls[i].filingStatus).tax
                = calculateTaxLiability(calls[i].taxableIncome, calls[i].filingStatus).tax
          /\ TaxCalculator_standardDeduction(calls[i].filingStatus)
                = getStandardDeduction(calls[i].filingStatus)

\* the call of the state repeated on the same tax return with another taxYear
SameCallInYear(year) ==
    LET other == [taxReturn EXCEPT !.taxYear = year]
    IN  IF calc.impl = "calculateTax"
        THEN TaxCalculator_calculateTax(TaxCalculationInput(other))
        ELSE calculateTaxes(other)

\* a tax year on the other side of 2023 than the tax return's
OtherTaxYear == IF taxReturn.taxYear < 2023 THEN 2030 ELSE 2020

\* C27: the result of a call does not depend on taxYear: the same call on
\* the tax return with a taxYear on the other side of 2023 (2030 for a
\* return of 2022, 2020 for one of 2023) returns the same result, and the
\* standard deduction is the 2023 amount whatever the year.
C27_TaxYearIndependence ==
    Called =>
       /\ SameCallInYear(OtherTaxYear) = calc
       /\ taxReturn.filingStatus \in FilingStatus =>
             calc.standardDeduction = Dollars(STANDARD_DEDUCTIONS_2023[taxReturn.filingStatus])

\* a call for tax year 2022 that takes the 2023 deduction of 13850
C27_Witness ==
    /\ Called
    /\ taxReturn.taxYear = 2022
    /\ taxReturn.filingStatus = "SINGLE"
    /\ calc.standardDeduction = Dollars(13850)
    /\ SameCallInYear(2023) = calc
    /\ Gt(calc.taxLiability, Zero)

\* ------------------------------------------------------------------------
\* Persisted records and the routes that change them
\* ------------------------------------------------------------------------
\* most rows of one kind (income entries, deduction entries, dependents)
MaxRows == 2

\* a Decimal(12, 2) column keeps two decimals: the value written is rounded
\* to the cent, a half away from zero
ToDecimal12_2(a) ==
    LET cent == Micro \div 100
        roundNonNeg(x) == Norm("fin", x.w, ((x.u + (cent \div 2)) \div cent) * cent)
    IN  IF Lt(a, Zero) THEN Neg(roundNonNeg(Neg(a))) ELSE roundNonNeg(a)

\* the nine totals of a tax return row, each @default(0)
DefaultTotals ==
    [totalIncome |-> Zero, adjustedGrossIncome |-> Zero, standardDeduction |-> Zero,
     itemizedDeduction |-> Zero, taxableIncome |-> Zero, taxLiability |-> Zero,
     totalCredits |-> Zero, refundAmount |-> Zero, amountOwed |-> Zero]

\* the totals written by prisma.taxReturn.update({ data: ... }) from a
\* calculation, as the columns keep them
TotalsData(calculation) ==
    [f \in DOMAIN DefaultTotals |-> ToDecimal12_2(calculation[f])]

\* a row of TaxReturn as prisma.taxReturn.create leaves it; its id is its
\* place in db.taxReturns
TaxReturnRow(userId, taxYear, filingStatus) ==
    [userId |-> userId, taxYear |-> taxYear, filingStatus |-> filingStatus,
     totals |-> DefaultTotals, currentStep |-> 1, completedSteps |-> <<>>]

IncomeEntryRow(id, taxReturnId, entry) ==
    [id |-> id, taxReturnId |-> taxReturnId, incomeType |-> entry.incomeType,
     amount |-> ToDecimal12_2(entry.amount)]

DeductionEntryRow(id, taxReturnId, entry) ==
    [id |-> id, taxReturnId |-> taxReturnId, deductionType |-> entry.deductionType,
     amount |-> ToDecimal12_2(entry.amount)]

DependentRow(id, taxReturnId) == [id |-> id, taxReturnId |-> taxReturnId]

\* @default(cuid()): an id no row of the table has
NewId(rows) ==
    CHOOSE i \in 1..(Cardinality(rows) + 1) :
       /\ \A r \in rows : r.id # i
       /\ \A j \in 1..(i - 1) : \E r \in rows : r.id = j

\* the rows of a relation in the order of their ids
RECURSIVE InOrder(_)
InOrder(rows) ==
    IF rows = {} THEN <<>>
    ELSE LET first == CHOOSE r \in rows : \A o \in rows : r.id <= o.id
         IN  <<first>> \o InOrder(rows \ {first})

RowsOf(rows, taxReturnId) == { r \in rows : r.taxReturnId = taxReturnId }

\* prisma.taxReturn.findUnique({ where: { id }, include: { incomeEntries,
\* deductionEntries, dependents } }) on the tables d
findUniqueInclude(d, id) ==
    [filingStatus |-> d.taxReturns[id].filingStatus,
     taxYear |-> d.taxReturns[id].taxYear,
     incomeEntries |-> InOrder(RowsOf(d.incomeEntries, id)),
     deductionEntries |-> InOrder(RowsOf(d.deductionEntries, id)),
     dependents |-> InOrder(RowsOf(d.dependents, id))]

\* requireOwnership: findFirst({ where: { id, userId } }) finds the row
requireOwnership(d, userId, id) ==
    id \in DOMAIN d.taxReturns /\ d.taxReturns[id].userId = userId

\* recalculateTaxTotals(taxReturnId) of the TaxCalculator-backed routes:
\* read the tax return with its relations, calculate, write the totals
recalculateTaxTotals(d, id) ==
    IF id \notin DOMAIN d.taxReturns THEN d
    ELSE LET calculation ==
                 TaxCalculator_calculateTax(TaxCalculationInput(findUniqueInclude(d, id)))
         IN  [d EXCEPT !.taxReturns[id].totals = TotalsData(calculation)]

\* ------------------------------------------------------------------------
\* The TaxCalculator-backed routes (income.ts, deductions and tax returns of
\* part_010, dependents.ts): every request runs to completion before the
\* next one starts
\* ------------------------------------------------------------------------
\* the authenticated user of the requests, and the owner of the other return
Requester == "u1"
OtherUser == "u2"

\* filing statuses sent in request bodies
RouteFilingStatuses == {"SINGLE", "MARRIED_FILING_JOINTLY"}

\* request bodies: two that the schemas accept and one they reject (amount
\* must be positive)
IncomeBodies ==
    { Income("DIVIDENDS", Dollars(30000)),
      Income("INTEREST", Cents(18000, 50)),
      Income("OTHER_INCOME", Dollars(0 - 5000)) }

DeductionBodies ==
    { Deduction("CHARITABLE_CONTRIBUTIONS", Cents(20000, 25)),
      Deduction("OTHER_DEDUCTIONS", Dollars(0 - 100)) }

\* z.number().positive('Amount must be positive')
positive(body) == Gt(body.amount, Zero)

\* the :id and :entryId of a request
IdParams == 1..2
EntryIdParams == 1..(MaxRows + 1)

\* the response to a request that wrote nothing the engine reads
Response(route, status, id) ==
    [route |-> route, status |-> status, taxReturnId |-> id, wrote |-> FALSE]

\* the response to a request that wrote an entry, a dependent or the filing
\* status of tax return id
Wrote(route, status, id) ==
    [route |-> route, status |-> status, taxReturnId |-> id, wrote |-> TRUE]

\* the other user's tax return, with one income entry and one deduction
\* entry, as the routes leave it
OtherUsersRecords ==
    recalculateTaxTotals(
        [taxReturns |-> << TaxReturnRow(Requester, 2023, "SINGLE"),
                           TaxReturnRow(OtherUser, 2023, "SINGLE") >>,
         incomeEntries |-> { IncomeEntryRow(1, 2, Income("W2_WAGES", Dollars(75000))) },
         deductionEntries |->
             { DeductionEntryRow(1, 2, Deduction("MORTGAGE_INTEREST", Dollars(8500))) },
         dependents |-> {}], 2)

\* the requester has just created a tax return (POST / of part_010)
InitRoutes ==
    /\ \E fs \in RouteFilingStatuses :
          db = [OtherUsersRecords EXCEPT !.taxReturns[1].filingStatus = fs]
    /\ taxReturn = EmptyTaxReturn
    /\ calc = NoCalc
    /\ calls = <<>>
    /\ pending = <<>>
    /\ response = NoResponse

\* POST /:id/income
PostIncome ==
    /\ \E id \in IdParams, body \in IncomeBodies :
          IF ~requireOwnership(db, Requester, id)
          THEN response' = Response("POST /:id/income", 404, id) /\ db' = db
          ELSE IF ~positive(body)
          THEN response' = Response("POST /:id/income", 400, id) /\ db' = db
          ELSE /\ Cardinality(RowsOf(db.incomeEntries, id)) < MaxRows
               /\ LET created == IncomeEntryRow(NewId(db.incomeEntries), id, body)
                  IN  db' = recalculateTaxTotals(
                               [db EXCEPT !.incomeEntries = @ \cup {created}], id)
               /\ response' = Wrote("POST /:id/income", 201, id)
    /\ UNCHANGED <<taxReturn, calc, calls, pending>>

\* PUT /:id/income/:entryId
PutIncome ==
    /\ \E id \in IdParams, entryId \in EntryIdParams, body \in IncomeBodies :
          LET existingEntry ==
                  { e \in db.incomeEntries : e.id = entryId /\ e.taxReturnId = id }
          IN  IF ~requireOwnership(db, Requester, id)
              THEN response' = Response("PUT /:id/income/:entryId", 404, id) /\ db' = db
              ELSE IF ~positive(body)
              THEN response' = Response("PUT /:id/income/:entryId", 400, id) /\ db' = db
              ELSE IF existingEntry = {}
              THEN response' = Response("PUT /:id/income/:entryId", 404, id) /\ db' = db
              ELSE /\ db' = recalculateTaxTotals(
                               [db EXCEPT !.incomeEntries =
                                   { IF e.id = entryId
                                     THEN IncomeEntryRow(e.id, e.taxReturnId, body)
                                     ELSE e : e \in @ }], id)
                   /\ response' = Wrote("PUT /:id/income/:entryId", 200, id)
    /\ UNCHANGED <<taxReturn, calc, calls, pending>>

\* DELETE /:id/income/:entryId
DeleteIncome ==
    /\ \E id \in IdParams, entryId \in EntryIdParams :
          LET existingEntry ==
                  { e \in db.incomeEntries : e.id = entryId /\ e.taxReturnId = id }
          IN  IF ~requireOwnership(db, Requester, id)
              THEN response' = Response("DELETE /:id/income/:entryId", 404, id) /\ db' = db
              ELSE IF existingEntry = {}
              THEN response' = Response("DELETE /:id/income/:entryId", 404, id) /\ db' = db
              ELSE /\ db' = recalculateTaxTotals(
                               [db EXCEPT !.incomeEntries =
                                   { e \in @ : e.id # entryId }], id)
                   /\ response' = Wrote("DELETE /:id/income/:entryId", 200, id)
    /\ UNCHANGED <<taxReturn, calc, calls, pending>>

\* POST /:id/deductions
PostDeduction ==
    /\ \E id \in IdParams, body \in DeductionBodies :
          IF ~requireOwnership(db, Requester, id)
          THEN response' = Response("POST /:id/deductions", 404, id) /\ db' = db
          ELSE IF ~positive(body)
          THEN response' = Response("POST /:id/deductions", 400, id) /\ db' = db
          ELSE /\ Cardinality(RowsOf(db.deductionEntries, id)) < MaxRows
               /\ LET created == DeductionEntryRow(NewId(db.deductionEntries), id, body)
                  IN  db' = recalculateTaxTotals(
                               [db EXCEPT !.deductionEntries = @ \cup {created}], id)
               /\ response' = Wrote("POST /:id/deductions", 201, id)
    /\ UNCHANGED <<taxReturn, calc, calls, pending>>

\* PUT /:id/deductions/:entryId
PutDeduction ==
    /\ \E id \in IdParams, entryId \in EntryIdParams, body \in DeductionBodies :
          LET existingEntry ==
                  { e \in db.deductionEntries : e.id = entryId /\ e.taxReturnId = id }
          IN  IF ~requireOwnership(db, Requester, id)
              THEN response' = Response("PUT /:id/deductions/:entryId", 404, id) /\ db' = db
              ELSE IF ~positive(body)
              THEN response' = Response("PUT /:id/deductions/:entryId", 400, id) /\ db' = db
              ELSE IF existingEntry = {}
              THEN response' = Response("PUT /:id/deductions/:entryId", 404, id) /\ db' = db
              ELSE /\ db' = recalculateTaxTotals(
                               [db EXCEPT !.deductionEntries =
                                   { IF e.id = entryId
                                     THEN DeductionEntryRow(e.id, e.taxReturnId, body)
                                     ELSE e : e \in @ }], id)
                   /\ response' = Wrote("PUT /:id/deductions/:entryId", 200, id)
    /\ UNCHANGED <<taxReturn, calc, calls, pending>>

\* DELETE /:id/deductions/:entryId
DeleteDeduction ==
    /\ \E id \in IdParams, entryId \in EntryIdParams :
          LET existingEntry ==
                  { e \in db.deductionEntries : e.id = entryId /\ e.taxReturnId = id }
          IN  IF ~requireOwnership(db, Requester, id)
              THEN response' = Response("DELETE /:id/deductions/:entryId", 404, id)
                   /\ db' = db
              ELSE IF existingEntry = {}
              THEN response' = Response("DELETE /:id/deductions/:entryId", 404, id)
                   /\ db' = db
              ELSE /\ db' = recalculateTaxTotals(
                               [db EXCEPT !.deductionEntries =
                                   { e \in @ : e.id # entryId }], id)
                   /\ response' = Wrote("DELETE /:id/deductions/:entryId", 200, id)
    /\ UNCHANGED <<taxReturn, calc, calls, pending>>

\* POST /:id/dependents
PostDependent ==
    /\ \E id \in IdParams :
          IF ~requireOwnership(db, Requester, id)
          THEN response' = Response("POST /:id/dependents", 404, id) /\ db' = db
          ELSE /\ Cardinality(RowsOf(db.dependents, id)) < MaxRows
               /\ LET created == DependentRow(NewId(db.dependents), id)
                  IN  db' = recalculateTaxTotals(
                               [db EXCEPT !.dependents = @ \cup {created}], id)
               /\ response' = Wrote("POST /:id/dependents", 201, id)
    /\ UNCHANGED <<taxReturn, calc, calls, pending>>

\* PUT /:id/dependents/:dependentId: the fields it writes (names, ssn,
\* relationship, birthDate) are not read by the engine
PutDependent ==
    /\ \E id \in IdParams, dependentId \in EntryIdParams :
          LET existingDependent ==
                  { e \in db.dependents : e.id = dependentId /\ e.taxReturnId = id }
          IN  IF ~requireOwnership(db, Requester, id)
              THEN response' = Response("PUT /:id/dependents/:dependentId", 404, id)
                   /\ db' = db
              ELSE IF existingDependent = {}
              THEN response' = Response("PUT /:id/dependents/:dependentId", 404, id)
                   /\ db' = db
              ELSE /\ db' = recalculateTaxTotals(db, id)
                   /\ response' = Wrote("PUT /:id/dependents/:dependentId", 200, id)
    /\ UNCHANGED <<taxReturn, calc, calls, pending>>

\* DELETE /:id/dependents/:dependentId
DeleteDependent ==
    /\ \E id \in IdParams, dependentId \in EntryIdParams :
          LET existingDependent ==
                  { e \in db.dependents : e.id = dependentId /\ e.taxReturnId = id }
          IN  IF ~requireOwnership(db, Requester, id)
              THEN response' = Response("DELETE /:id/dependents/:dependentId", 404, id)
                   /\ db' = db
              ELSE IF existingDependent = {}
              THEN response' = Response("DELETE /:id/dependents/:dependentId", 404, id)
                   /\ db' = db
              ELSE /\ db' = recalculateTaxTotals(
                               [db EXCEPT !.dependents = { e \in @ : e.id # dependentId }],
                               id)
                   /\ response' = Wrote("DELETE /:id/dependents/:dependentId", 200, id)
    /\ UNCHANGED <<taxReturn, calc, calls, pending>>

\* the filingStatus of a request body; "absent" when the body has none
BodyFilingStatuses == RouteFilingStatuses \cup {"absent"}

\* PUT /:id of part_010: update the row, recalculate when the body has a
\* filingStatus
PutTaxReturn ==
    /\ \E id \in IdParams, filingStatus \in BodyFilingStatuses :
          IF ~requireOwnership(db, Requester, id)
          THEN response' = Response("PUT /:id", 404, id) /\ db' = db
          ELSE /\ db' = IF filingStatus = "absent" THEN db
                        ELSE recalculateTaxTotals(
                                 [db EXCEPT !.taxReturns[id].filingStatus = filingStatus],
                                 id)
               /\ response' = IF filingStatus = "absent" THEN Response("PUT /:id", 200, id)
                              ELSE Wrote("PUT /:id", 200, id)
    /\ UNCHANGED <<taxReturn, calc, calls, pending>>

\* POST /:id/auto-save of part_010: every key of data is written to the
\* row (here: filingStatus), currentStep is set when step is given
\* (step = 0: not given); nothing is recalculated
AutoSave ==
    /\ \E id \in IdParams, filingStatus \in BodyFilingStatuses, step \in 0..1 :
          IF ~requireOwnership(db, Requester, id)
          THEN response' = Response("POST /:id/auto-save", 404, id) /\ db' = db
          ELSE /\ db' = [db EXCEPT
                            !.taxReturns[id].currentStep = IF step # 0 THEN step ELSE @,
                            !.taxReturns[id].filingStatus =
                                IF filingStatus # "absent" THEN filingStatus ELSE @]
               /\ response' = IF filingStatus = "absent"
                              THEN Response("POST /:id/auto-save", 200, id)
                              ELSE Wrote("POST /:id/auto-save", 200, id)
    /\ UNCHANGED <<taxReturn, calc, calls, pending>>

\* POST /:id/calculate
Calculate ==
    /\ \E id \in IdParams :
          IF ~requireOwnership(db, Requester, id)
          THEN response' = Response("POST /:id/calculate", 404, id) /\ db' = db
          ELSE /\ db' = recalculateTaxTotals(db, id)
               /\ response' = Response("POST /:id/calculate", 200, id)
    /\ UNCHANGED <<taxReturn, calc, calls, pending>>

\* GET /:id/deductions/summary: the summary compares the sum of the
\* deduction entries with the standardDeduction persisted on the row
GetDeductionsSummary ==
    /\ \E id \in IdParams :
          IF ~requireOwnership(db, Requester, id)
          THEN response' = Response("GET /:id/deductions/summary", 404, id)
          ELSE LET totalDeductions ==
                       SumAmounts(InOrder(RowsOf(db.deductionEntries, id)))
                   standardDeduction == db.taxReturns[id].totals.standardDeduction
               IN  response' =
                       [route |-> "GET /:id/deductions/summary", status |-> 200,
                        taxReturnId |-> id, wrote |-> FALSE,
                        totalItemizedDeductions |-> totalDeductions,
                        standardDeduction |-> standardDeduction,
                        shouldItemize |-> Gt(totalDeductions, standardDeduction)]
    /\ UNCHANGED <<taxReturn, calc, calls, pending, db>>

NextRoutes ==
    \/ PostIncome \/ PutIncome \/ DeleteIncome
    \/ PostDeduction \/ PutDeduction \/ DeleteDeduction
    \/ PostDependent \/ PutDependent \/ DeleteDependent
    \/ PutTaxReturn \/ AutoSave \/ Calculate \/ GetDeductionsSummary

SpecRoutes == InitRoutes /\ [][NextRoutes]_vars

\* the last request has completed and wrote an entry, a dependent or the
\* filing status of a tax return
MutationCompleted == response.route # "none" /\ response.wrote

\* the nine result fields of a calculation
ResultFields(calculation) == [f \in DOMAIN DefaultTotals |-> calculation[f]]

\* C22: once a mutation request of the TaxCalculator-backed routes has
\* completed, the totals persisted on the tax return are the result of
\* TaxCalculator.calculateTax on the persisted entries, dependents and
\* filing status.
C22_TotalsFollowMutations ==
    MutationCompleted =>
       db.taxReturns[response.taxReturnId].totals =
          ResultFields(TaxCalculator_calculateTax(
              TaxCalculationInput(findUniqueInclude(db, response.taxReturnId))))

\* ------------------------------------------------------------------------
\* The calculateTaxes-backed routes (routes/taxReturns.ts): every request
\* runs to completion before the next one starts
\* ------------------------------------------------------------------------
\* a dependent row as calculateCredits of taxCalculationService reads it
QualifyingChildRow(id, taxReturnId) ==
    [id |-> id, taxReturnId |-> taxReturnId, isQualifyingChild |-> TRUE]

\* POST / of routes/taxReturns.ts: the row created, with the standard
\* deduction the route writes
createTaxReturn(userId, taxYear, filingStatus) ==
    [TaxReturnRow(userId, taxYear, filingStatus) EXCEPT
        !.totals.standardDeduction =
            Dollars(IF filingStatus = "MARRIED_FILING_JOINTLY" THEN 27700 ELSE 13850)]

\* the recalculation of POST /:id/income: findUnique with the relations,
\* calculateTaxes, update with the result
recalculateTaxes(d, id) ==
    IF id \notin DOMAIN d.taxReturns THEN d
    ELSE [d EXCEPT !.taxReturns[id].totals =
                       TotalsData(calculateTaxes(findUniqueInclude(d, id)))]

\* the other user's tax return as the routes leave it: a deduction entry
\* posted, then an income entry posted
ServiceOtherUsersRecords ==
    recalculateTaxes(
        [taxReturns |-> << createTaxReturn(Requester, 2023, "SINGLE"),
                           createTaxReturn(OtherUser, 2023, "SINGLE") >>,
         incomeEntries |-> { IncomeEntryRow(1, 2, Income("W2_WAGES", Dollars(75000))) },
         deductionEntries |->
             { DeductionEntryRow(1, 2, Deduction("MORTGAGE_INTEREST", Dollars(8500))) },
         dependents |-> {}], 2)

\* the requester has just created a tax return (POST /); one qualifying
\* child is among its dependents
InitServiceRoutes ==
    /\ \E fs \in RouteFilingStatuses :
          db = [ServiceOtherUsersRecords EXCEPT
                   !.taxReturns[1] = createTaxReturn(Requester, 2023, fs),
                   !.dependents = { QualifyingChildRow(1, 1) }]
    /\ taxReturn = EmptyTaxReturn
    /\ calc = NoCalc
    /\ calls = <<>>
    /\ pending = <<>>
    /\ response = NoResponse

\* request bodies of the express-validator routes: amount isNumeric
ServiceIncomeBodies ==
    { Income("DIVIDENDS", Dollars(30000)), Income("INTEREST", Cents(18000, 50)) }

ServiceDeductionBodies == { Deduction("CHARITABLE_CONTRIBUTIONS", Cents(20000, 25)) }

\* POST /:id/income of routes/taxReturns.ts: amount isNumeric
ServicePostIncome ==
    /\ \E id \in IdParams, body \in ServiceIncomeBodies :
          IF ~requireOwnership(db, Requester, id)
          THEN response' = Response("POST /:id/income", 404, id) /\ db' = db
          ELSE /\ Cardinality(db.incomeEntries) < MaxRows
               /\ LET created == IncomeEntryRow(NewId(db.incomeEntries), id, body)
                  IN  db' = recalculateTaxes(
                               [db EXCEPT !.incomeEntries = @ \cup {created}], id)
               /\ response' = Wrote("POST /:id/income", 201, id)
    /\ UNCHANGED <<taxReturn, calc, calls, pending>>

\* PUT /:id/income/:entryId of routes/taxReturns.ts: the entry is updated
\* where { id: entryId }; an entry that does not exist makes update throw
ServicePutIncome ==
    /\ \E id \in IdParams, entryId \in EntryIdParams, body \in ServiceIncomeBodies :
          IF ~requireOwnership(db, Requester, id)
          THEN response' = Response("PUT /:id/income/:entryId", 404, id) /\ db' = db
          ELSE IF \A e \in db.incomeEntries : e.id # entryId
          THEN response' = Response("PUT /:id/income/:entryId", 500, id) /\ db' = db
          ELSE /\ db' = [db EXCEPT !.incomeEntries =
                            { IF e.id = entryId
                              THEN IncomeEntryRow(e.id, e.taxReturnId, body)
                              ELSE e : e \in @ }]
               /\ response' = Wrote("PUT /:id/income/:entryId", 200, id)
    /\ UNCHANGED <<taxReturn, calc, calls, pending>>

\* DELETE /:id/income/:entryId of routes/taxReturns.ts
ServiceDeleteIncome ==
    /\ \E id \in IdParams, entryId \in EntryIdParams :
          IF ~requireOwnership(db, Requester, id)
          THEN response' = Response("DELETE /:id/income/:entryId", 404, id) /\ db' = db
          ELSE IF \A e \in db.incomeEntries : e.id # entryId
          THEN response' = Response("DELETE /:id/income/:entryId", 500, id) /\ db' = db
          ELSE /\ db' = [db EXCEPT !.incomeEntries = { e \in @ : e.id # entryId }]
               /\ response' = Wrote("DELETE /:id/income/:entryId", 200, id)
    /\ UNCHANGED <<taxReturn, calc, calls, pending>>

\* POST /:id/deductions of routes/taxReturns.ts
ServicePostDeduction ==
    /\ \E id \in IdParams, body \in ServiceDeductionBodies :
          IF ~requireOwnership(db, Requester, id)
          THEN response' = Response("POST /:id/deductions", 404, id) /\ db' = db
          ELSE /\ Cardinality(db.deductionEntries) < MaxRows
               /\ LET created == DeductionEntryRow(NewId(db.deductionEntries), id, body)
                  IN  db' = [db EXCEPT !.deductionEntries = @ \cup {created}]
               /\ response' = Wrote("POST /:id/deductions", 201, id)
    /\ UNCHANGED <<taxReturn, calc, calls, pending>>

\* PUT /:id/deductions/:entryId of routes/taxReturns.ts
ServicePutDeduction ==
    /\ \E id \in IdParams, entryId \in EntryIdParams, body \in ServiceDeductionBodies :
          IF ~requireOwnership(db, Requester, id)
          THEN response' = Response("PUT /:id/deductions/:entryId", 404, id) /\ db' = db
          ELSE IF \A e \in db.deductionEntries : e.id # entryId
          THEN response' = Response("PUT /:id/deductions/:entryId", 500, id) /\ db' = db
          ELSE /\ db' = [db EXCEPT !.deductionEntries =
                            { IF e.id = entryId
                              THEN DeductionEntryRow(e.id, e.taxReturnId, body)
                              ELSE e : e \in @ }]
               /\ response' = Wrote("PUT /:id/deductions/:entryId", 200, id)
    /\ UNCHANGED <<taxReturn, calc, calls, pending>>

\* DELETE /:id/deductions/:entryId of routes/taxReturns.ts
ServiceDeleteDeduction ==
    /\ \E id \in IdParams, entryId \in EntryIdParams :
          IF ~requireOwnership(db, Requester, id)
          THEN response' = Response("DELETE /:id/deductions/:entryId", 404, id)
               /\ db' = db
          ELSE IF \A e \in db.deductionEntries : e.id # entryId
          THEN response' = Response("DELETE /:id/deductions/:entryId", 500, id)
               /\ db' = db
          ELSE /\ db' = [db EXCEPT !.deductionEntries = { e \in @ : e.id # entryId }]
               /\ response' = Wrote("DELETE /:id/deductions/:entryId", 200, id)
    /\ UNCHANGED <<taxReturn, calc, calls, pending>>

\* PUT /:id of routes/taxReturns.ts: the body is written to the row; the
\* recalculation runs only for a body with incomeEntries or
\* deductionEntries, which a body with the filing status alone has not
ServicePutTaxReturn ==
    /\ \E id \in IdParams, filingStatus \in BodyFilingStatuses :
          IF ~requireOwnership(db, Requester, id)
          THEN response' = Response("PUT /:id", 404, id) /\ db' = db
          ELSE /\ db' = IF filingStatus = "absent" THEN db
                        ELSE [db EXCEPT !.taxReturns[id].filingStatus = filingStatus]
               /\ response' = IF filingStatus = "absent" THEN Response("PUT /:id", 200, id)
                              ELSE Wrote("PUT /:id", 200, id)
    /\ UNCHANGED <<taxReturn, calc, calls, pending>>

NextServiceRoutes ==
    \/ ServicePostIncome \/ ServicePutIncome \/ ServiceDeleteIncome
    \/ ServicePostDeduction \/ ServicePutDeduction \/ ServiceDeleteDeduction
    \/ ServicePutTaxReturn

SpecServiceRoutes == InitServiceRoutes /\ [][NextServiceRoutes]_vars

\* C23: once a mutation request of the calculateTaxes-backed routes has
\* completed, the totals persisted on the tax return are the result of
\* calculateTaxes on the persisted entries, dependents and filing status.
C23_ServiceTotalsFollowMutations ==
    MutationCompleted =>
       db.taxReturns[response.taxReturnId].totals =
          ResultFields(calculateTaxes(findUniqueInclude(db, response.taxReturnId)))

\* ------------------------------------------------------------------------
\* Overlapping requests: a mutation request is a chain of awaited database
\* calls (create the entry, findUnique with the relations, update the
\* totals); no transaction or lock joins them, so the calls of two requests
\* interleave
\* ------------------------------------------------------------------------
\* most requests in flight or completed in one behaviour
MaxRequests == 2

\* the requests: POST /:id/income of income.ts and POST /:id/deductions of
\* part_010, on the requester's tax return, with bodies the schemas accept
MutationRequests ==
    { [route |-> "POST /:id/income", body |-> b] :
          b \in { x \in IncomeBodies : positive(x) } }
    \cup { [route |-> "POST /:id/deductions", body |-> b] :
          b \in { x \in DeductionBodies : positive(x) } }

InitConcurrent ==
    /\ \E fs \in RouteFilingStatuses :
          db = [OtherUsersRecords EXCEPT !.taxReturns[1].filingStatus = fs]
    /\ taxReturn = EmptyTaxReturn
    /\ calc = NoCalc
    /\ calls = <<>>
    /\ pending = <<>>
    /\ response = NoResponse

\* a request arrives; requireOwnership and the schema let it pass
Arrive ==
    /\ Len(pending) < MaxRequests
    /\ \E r \in MutationRequests :
          pending' = Append(pending, [route |-> r.route, body |-> r.body, id |-> 1,
                                      pc |-> "create", snapshot |-> EmptyTaxReturn])
    /\ UNCHANGED <<taxReturn, calc, calls, db, response>>

\* await prisma.incomeEntry.create / prisma.deductionEntry.create
CreateEntry ==
    /\ \E i \in 1..Len(pending) :
          /\ pending[i].pc = "create"
          /\ db' = IF pending[i].route = "POST /:id/income"
                   THEN [db EXCEPT !.incomeEntries =
                            @ \cup { IncomeEntryRow(NewId(db.incomeEntries),
                                                    pending[i].id, pending[i].body) }]
                   ELSE [db EXCEPT !.deductionEntries =
                            @ \cup { DeductionEntryRow(NewId(db.deductionEntries),
                                                       pending[i].id, pending[i].body) }]
          /\ pending' = [pending EXCEPT ![i].pc = "findUnique"]
    /\ UNCHANGED <<taxReturn, calc, calls, response>>

\* recalculateTaxTotals, first await: prisma.taxReturn.findUnique with the
\* relations
ReadSnapshot ==
    /\ \E i \in 1..Len(pending) :
          /\ pending[i].pc = "findUnique"
          /\ pending' = [pending EXCEPT ![i].pc = "update",
                                        ![i].snapshot = findUniqueInclude(db, pending[i].id)]
    /\ UNCHANGED <<taxReturn, calc, calls, db, response>>

\* recalculateTaxTotals, the calculation on the snapshot and the second
\* await: prisma.taxReturn.update with the totals; then the response
WriteTotals ==
    /\ \E i \in 1..Len(pending) :
          /\ pending[i].pc = "update"
          /\ db' = [db EXCEPT !.taxReturns[pending[i].id].totals =
                       TotalsData(TaxCalculator_calculateTax(
                           TaxCalculationInput(pending[i].snapshot)))]
          /\ pending' = [pending EXCEPT ![i].pc = "done"]
          /\ response' = Wrote(pending[i].route, 201, pending[i].id)
    /\ UNCHANGED <<taxReturn, calc, calls>>

NextConcurrent == Arrive \/ CreateEntry \/ ReadSnapshot \/ WriteTotals

SpecConcurrent == InitConcurrent /\ [][NextConcurrent]_vars

\* two requests have arrived and both have completed
BothCompleted ==
    /\ Len(pending) = 2
    /\ \A i \in 1..Len(pending) : pending[i].pc = "done"

\* C24: once two mutation requests on the same tax return have both
\* completed, however their steps interleaved, the persisted totals are
\* those of the calculation over the persisted entries (as the columns keep
\* them): a total computed from a stale snapshot is never the last write.
C24_NoStaleLastWrite ==
    BothCompleted =>
       db.taxReturns[1].totals =
          TotalsData(TaxCalculator_calculateTax(
              TaxCalculationInput(findUniqueInclude(db, 1))))

\* the last request was a GET /:id/deductions/summary that was answered
SummaryShown ==
    response.route = "GET /:id/deductions/summary" /\ response.status = 200

\* the engine run on the persisted records of the tax return of the summary
EngineOnPersisted ==
    TaxCalculator_calculateTax(
        TaxCalculationInput(findUniqueInclude(db, response.taxReturnId)))

\* C25: the summary of GET /:id/deductions/summary reports shouldItemize =
\* true exactly when the engine, run on the persisted entries, applies the
\* itemized deduction, and the standardDeduction it reports is the engine's
\* standard deduction for the filing status.
C25_SummaryAgreesWithEngine ==
    SummaryShown =>
       /\ response.shouldItemize =
             (EngineOnPersisted.deduction = EngineOnPersisted.itemizedDeduction
              /\ Gt(EngineOnPersisted.itemizedDeduction,
                    EngineOnPersisted.standardDeduction))
       /\ response.standardDeduction = EngineOnPersisted.standardDeduction

\* ------------------------------------------------------------------------
\* POST /:id/complete-step of part_010
\* ------------------------------------------------------------------------
\* the step of a request body: 0 and 11 are rejected by completeStepSchema
\* (z.number().min(1).max(10))
StepInputs == {0, 1, 2, 3, 10, 11}

\* currentStep as a POST /:id/auto-save with a step may have left it
SavedSteps == {1, 3}

\* Variant that sets currentStep to the step after the one completed.
completeStep_NextOfStep(row, step) ==
    [row EXCEPT
        !.completedSteps =
            IF \E k \in 1..Len(@) : @[k] = step THEN @ ELSE Append(@, step),
        !.currentStep = step + 1]

\* the data of the update: completedSteps with the step pushed unless it
\* includes it, currentStep: Math.max(taxReturn.currentStep, step + 1)
completeStep(row, step) ==
    [row EXCEPT
        !.completedSteps =
            IF \E k \in 1..Len(@) : @[k] = step THEN @ ELSE Append(@, step),
        !.currentStep = IF @ >= step + 1 THEN @ ELSE step + 1]

InitSteps ==
    /\ \E fs \in RouteFilingStatuses, saved \in SavedSteps :
          db = [OtherUsersRecords EXCEPT !.taxReturns[1].filingStatus = fs,
                                         !.taxReturns[1].currentStep = saved]
    /\ taxReturn = EmptyTaxReturn
    /\ calc = NoCalc
    /\ calls = <<>>
    /\ pending = <<>>
    /\ response = NoResponse

\* POST /:id/complete-step
CompleteStep ==
    /\ \E id \in IdParams, step \in StepInputs :
          LET answer(status) ==
                  [route |-> "POST /:id/complete-step", status |-> status,
                   taxReturnId |-> id, wrote |-> FALSE, step |-> step]
          IN  IF ~requireOwnership(db, Requester, id)
              THEN response' = answer(404) /\ db' = db
              ELSE IF step < 1 \/ step > 10
              THEN response' = answer(400) /\ db' = db
              ELSE /\ db' = [db EXCEPT !.taxReturns[id] = completeStep(@, step)]
                   /\ response' = answer(200)
    /\ UNCHANGED <<taxReturn, calc, calls, pending>>

NextSteps == CompleteStep

SpecSteps == InitSteps /\ [][NextSteps]_vars

\* no step is twice in the completedSteps of any tax return
NoStepTwice ==
    \A id \in DOMAIN db.taxReturns :
       LET completedSteps == db.taxReturns[id].completedSteps
       IN  \A j, k \in 1..Len(completedSteps) :
              completedSteps[j] = completedSteps[k] => j = k

\* a step of the behaviour leaves every currentStep where it was or moves it
\* up, and a completed request for step s leaves
\* currentStep = max(currentStep, s + 1)
StepMovesUp ==
    /\ \A id \in DOMAIN db.taxReturns :
          db'.taxReturns[id].currentStep >= db.taxReturns[id].currentStep
    /\ (response'.route = "POST /:id/complete-step" /\ response'.status = 200) =>
          LET before == db.taxReturns[response'.taxReturnId].currentStep
              next == response'.step + 1
          IN  db'.taxReturns[response'.taxReturnId].currentStep =
                 IF before >= next THEN before ELSE next

\* C28: over any sequence of complete-step requests on a tax return,
\* currentStep never decreases (it becomes max(currentStep, step + 1)) and
\* completedSteps never contains the same step twice.
C28_StepProgress == [][StepMovesUp]_vars /\ []NoStepTwice

\* step 1 was completed after step 3, and once more: currentStep stayed 4
\* and completedSteps has each step once
C28_Witness ==
    /\ db.taxReturns[1].completedSteps = <<3, 1>>
    /\ db.taxReturns[1].currentStep = 4
    /\ response.route = "POST /:id/complete-step"
    /\ response.status = 200
    /\ response.step = 1

\* C29: requests of a user who does not own a tax return change none of its
\* entries: whatever PUT and DELETE requests on /:id/income/:entryId and
\* /:id/deductions/:entryId the requester sends, the income and deduction
\* entries of the other user's tax return stay as they were.
C29_OtherUsersEntriesUntouched ==
    /\ RowsOf(db.incomeEntries, 2) = RowsOf(ServiceOtherUsersRecords.incomeEntries, 2)
    /\ RowsOf(db.deductionEntries, 2) = RowsOf(ServiceOtherUsersRecords.deductionEntries, 2)

\* ------------------------------------------------------------------------
\* POST /api/tax-returns (part_010 and routes/taxReturns.ts): the look-up of
\* an existing tax return and the create are two awaited database calls, so
\* the calls of overlapping requests interleave
\* ------------------------------------------------------------------------
\* the taxYear of a request body: 2019 is rejected by both routers
TaxYearInputs == {2019, 2022, 2023}

\* the two routers that serve POST /api/tax-returns
Routers == {"part_010", "taxReturns.ts"}

\* Variant of the table without the unique index.
uniqueUserIdTaxYear_NotEnforced(rows, userId, taxYear) == TRUE

\* @@unique([userId, taxYear]): a row for (userId, taxYear) can be inserted
\* only if the table has none
uniqueUserIdTaxYear(rows, userId, taxYear) ==
    \A i \in 1..Len(rows) : ~(rows[i].userId = userId /\ rows[i].taxYear = taxYear)

\* findFirst({ where: { userId, taxYear } }) / findUnique({ where:
\* { userId_taxYear } }) finds a row
existingReturn(rows, userId, taxYear) ==
    \E i \in 1..Len(rows) : rows[i].userId = userId /\ rows[i].taxYear = taxYear

\* the status of the rejection when a tax return of the year exists
alreadyExists(router) == IF router = "part_010" THEN 409 ELSE 400

InitCreate ==
    /\ db = [EmptyDatabase EXCEPT !.taxReturns = << TaxReturnRow(OtherUser, 2023, "SINGLE") >>]
    /\ taxReturn = EmptyTaxReturn
    /\ calc = NoCalc
    /\ calls = <<>>
    /\ pending = <<>>
    /\ response = NoResponse

\* a POST /api/tax-returns of the requester arrives
ArriveCreate ==
    /\ Len(pending) < MaxRequests
    /\ \E router \in Routers, taxYear \in TaxYearInputs, fs \in RouteFilingStatuses :
          pending' = Append(pending, [router |-> router, userId |-> Requester,
                                      taxYear |-> taxYear, filingStatus |-> fs,
                                      pc |-> "validate", status |-> 0])
    /\ UNCHANGED <<taxReturn, calc, calls, db, response>>

\* the body is validated (taxYear from 2020), then the look-up of an
\* existing tax return of the user for the year
CheckExisting ==
    /\ \E i \in 1..Len(pending) :
          /\ pending[i].pc = "validate"
          /\ IF pending[i].taxYear < 2020
             THEN /\ pending' = [pending EXCEPT ![i].pc = "done", ![i].status = 400]
                  /\ response' = Response("POST /", 400, 0)
             ELSE IF existingReturn(db.taxReturns, pending[i].userId, pending[i].taxYear)
             THEN /\ pending' = [pending EXCEPT ![i].pc = "done",
                                     ![i].status = alreadyExists(pending[i].router)]
                  /\ response' = Response("POST /", alreadyExists(pending[i].router), 0)
             ELSE /\ pending' = [pending EXCEPT ![i].pc = "create"]
                  /\ response' = response
    /\ UNCHANGED <<taxReturn, calc, calls, db>>

\* prisma.taxReturn.create: the insert fails on the unique index when a row
\* of the user for the year is there by now; the catch answers 500
CreateTaxReturn ==
    /\ \E i \in 1..Len(pending) :
          /\ pending[i].pc = "create"
          /\ IF uniqueUserIdTaxYear(db.taxReturns, pending[i].userId, pending[i].taxYear)
             THEN /\ db' = [db EXCEPT !.taxReturns =
                              Append(@, IF pending[i].router = "part_010"
                                        THEN TaxReturnRow(pending[i].userId,
                                                          pending[i].taxYear,
                                                          pending[i].filingStatus)
                                        ELSE createTaxReturn(pending[i].userId,
                                                             pending[i].taxYear,
                                                             pending[i].filingStatus))]
                  /\ pending' = [pending EXCEPT ![i].pc = "done", ![i].status = 201]
                  /\ response' = Wrote("POST /", 201, Len(db.taxReturns) + 1)
             ELSE /\ db' = db
                  /\ pending' = [pending EXCEPT ![i].pc = "done", ![i].status = 500]
                  /\ response' = Response("POST /", 500, 0)
    /\ UNCHANGED <<taxReturn, calc, calls>>

NextCreate == ArriveCreate \/ CheckExisting \/ CreateTaxReturn

SpecCreate == InitCreate /\ [][NextCreate]_vars

\* the tax returns of a user for a year, and the requests for them that were
\* answered 201
ReturnsOf(userId, taxYear) ==
    { i \in 1..Len(db.taxReturns) :
         db.taxReturns[i].userId = userId /\ db.taxReturns[i].taxYear = taxYear }

CreatedBy(userId, taxYear) ==
    { i \in 1..Len(pending) :
         /\ pending[i].userId = userId /\ pending[i].taxYear = taxYear
         /\ pending[i].status = 201 }

\* C30: after any sequence or interleaving of POST /api/tax-returns
\* requests of a user for a tax year at most one tax return of the user for
\* the year exists, every record was created by a request answered 201, and
\* every other completed request was rejected (400, 409 or 500) and created
\* none.
C30_OneReturnPerYear ==
    \A taxYear \in TaxYearInputs :
       /\ Cardinality(ReturnsOf(Requester, taxYear)) <= 1
       /\ Cardinality(ReturnsOf(Requester, taxYear)) =
             Cardinality(CreatedBy(Requester, taxYear))
       /\ \A i \in 1..Len(pending) :
             (pending[i].pc = "done" /\ pending[i].taxYear = taxYear
                /\ i \notin CreatedBy(Requester, taxYear))
             => pending[i].status \in {400, 409, 500}

\* two requests for 2023 both found no tax return; one created it and the
\* other failed on the unique index
C30_Witness ==
    /\ Len(pending) = 2
    /\ pending[1].taxYear = 2023 /\ pending[2].taxYear = 2023
    /\ pending[1].status = 500
    /\ pending[2].status = 201
    /\ Cardinality(ReturnsOf(Requester, 2023)) = 1

====
